---------------------------- MODULE Spec2Model ----------------------------
(***************************************************************************)
(* sf::BatchTarget (include/SFML/Graphics/BatchTarget.hpp): a render       *)
(* target that accumulates the vertices of many draw calls and is later    *)
(* drawn, in one call, to another render target.                           *)
(*                                                                         *)
(* Names of the spec and of the code:                                      *)
(*   submit   = BatchTarget::draw(const Vertex*, size_t, PrimitiveType,    *)
(*              const RenderStates&)              -> action Submit         *)
(*   replay   = BatchTarget::draw(RenderTarget&, RenderStates) const       *)
(*                                                -> action Replay         *)
(*   reset    = BatchTarget::clear                -> action Clear          *)
(*   StateConflict = a failed assert() of submit; the process aborts.      *)
(*                                                                         *)
(* sf::StencilSettings (include/SFML/Graphics/StencilSettings.hpp,         *)
(* src/SFML/Graphics/StencilSettings.cpp): the stencil settings of a draw  *)
(* call and their comparison operators.                                    *)
(***************************************************************************)
EXTENDS Integers, Sequences, FiniteSets, TLC

VARIABLES
    m_hasDrawnSomething,    \* bool: have we drawn anything since clear()?
    m_viewWasUsed,          \* bool: are we using a view?
    m_cachedTexture,        \* const sf::Texture*: a texture or NULL
    m_cachedPrimitiveType,  \* the decomposed primitive type in use
    m_vertexArray,          \* std::vector<sf::Vertex>
    m_cache,                \* RenderTarget::StatesCache: viewChanged, lastTextureId, lastBlendMode
    m_view,                 \* RenderTarget::m_view of the batch target (getView())
    targetView,             \* the current view of the target replay draws to
    aborted,                \* an assert of draw has failed: the process is gone
    cycle,                  \* history: what happened since the last clear()
    last,                   \* history: the last draw call or clear made and what it did ("other" after any other call)
    stencil                 \* two sf::StencilSettings, and the last operator called on them with its result

vars == << m_hasDrawnSomething, m_viewWasUsed, m_cachedTexture, m_cachedPrimitiveType,
           m_vertexArray, m_cache, m_view, targetView, aborted, cycle, last, stencil >>

----------------------------------------------------------------------------
(* Bounds of the model *)

\* most vertices one draw call passes, where the decomposition is studied
MaxVertexCount == 4
\* most draw calls between two clears
MaxSubmits == 3
\* most vertices the model lets the vertex array hold
MaxStored == 8

----------------------------------------------------------------------------
(* Values *)

NULL == "NULL"

\* sf::PrimitiveType
PrimitiveTypes == {"Points", "Lines", "LinesStrip", "Triangles", "TrianglesStrip", "TrianglesFan"}

\* Textures: texA is a created texture, tex0 is a texture object that was
\* never created (its native handle is 0, like that of no texture).
Textures == {"texA", "tex0"}

getNativeHandle(texture) ==
    IF texture = "texA" THEN 1 ELSE 0

BlendAlpha == "BlendAlpha"
BlendAdd == "BlendAdd"
BlendModes == {BlendAlpha, BlendAdd}

\* sf::Transform, as the map it applies to a point
Identity == "Identity"
Translate == "Translate"
TransformPoint(transform, p) ==
    IF transform = Translate THEN << p[1] + 10, p[2] + 10 >> ELSE p

\* Views: the batch target's own initial view, the views a caller sets on the
\* batch target, the default view of the replay target, another view of that target.
BatchInitialView == "batchInitialView"
DeclaredViews == {"viewA", "viewB"}
TargetDefaultView == "targetDefaultView"
TargetViews == {TargetDefaultView, "targetCustomView"}

\* The vertex counts of the calls whose settings are studied: one vertex each
\* (the settings code of draw does not read the count)
FewVertexCounts == {1}

\* The render states the callers pass: every texture and blend mode, and a
\* transform and shader that change together.
RenderStatesSet ==
    { [blendMode |-> b, transform |-> ts[1], texture |-> t, shader |-> ts[2]] :
        b \in BlendModes, t \in Textures \cup {NULL},
        ts \in { <<Identity, NULL>>, <<Translate, "shaderA">> } }

\* The render states the callers of replay pass
BaseRenderStates ==
    { s \in RenderStatesSet : /\ s.texture \in {NULL, "texA"}
                              /\ (s.blendMode = BlendAdd) = (s.texture = NULL)
                              /\ (s.transform = Translate) = (s.texture = NULL) }

\* The render states of the calls whose settings are studied: every texture
\* and blend mode, one transform and shader
SettingsRenderStates ==
    { s \in RenderStatesSet : s.transform = Identity }

\* The render states of the calls whose vertices are studied: one texture and
\* blend mode, every transform
PlainRenderStates ==
    { s \in RenderStatesSet : s.texture = NULL /\ s.blendMode = BlendAlpha }

\* The vertices a caller passes to its call number `call`: `count` vertices
\* with distinct positions; src names the call and the input index the vertex
\* stems from (history, copied along with the vertex).
InputVertex(call, i) ==
    [position |-> << i, call >>, color |-> i, texCoords |-> << i, i >>, src |-> << call, i >>]

InputVertices(call, count) == [i \in 1..count |-> InputVertex(call, i - 1)]

----------------------------------------------------------------------------
(* BatchTarget::draw(const Vertex*, std::size_t, PrimitiveType, const RenderStates&) *)

\* lines 73-79: the "decomposite" type of a primitive type
DecompositeType(originalType) ==
    IF originalType = "LinesStrip" THEN "Lines"
    ELSE IF originalType = "TrianglesStrip" THEN "Triangles"
    ELSE IF originalType = "TrianglesFan" THEN "Triangles"
    ELSE originalType

\* states.texture ? states.texture->getNativeHandle() : 0
TextureId(states) ==
    IF states.texture # NULL THEN getNativeHandle(states.texture) ELSE 0

\* the asserts with the one on the texture left out
FailedAssertNoTextureCheck(type, states) ==
    IF m_cache.viewChanged THEN "view"
    ELSE IF ~(m_cachedPrimitiveType = type) THEN "type"
    ELSE IF ~(m_cache.lastBlendMode = states.blendMode) THEN "blend"
    ELSE "none"

\* the asserts with the one on the view left out
FailedAssertNoViewCheck(type, states) ==
    IF ~(m_cachedPrimitiveType = type) THEN "type"
    ELSE IF ~(TextureId(states) = m_cache.lastTextureId) THEN "texture"
    ELSE IF ~(m_cache.lastBlendMode = states.blendMode) THEN "blend"
    ELSE "none"

\* the asserts with one more, that lets only untransformed vertices in
FailedAssertChecksTransform(type, states) ==
    IF m_cache.viewChanged THEN "view"
    ELSE IF ~(m_cachedPrimitiveType = type) THEN "type"
    ELSE IF ~(TextureId(states) = m_cache.lastTextureId) THEN "texture"
    ELSE IF ~(m_cache.lastBlendMode = states.blendMode) THEN "blend"
    ELSE IF ~(states.transform = Identity) THEN "transform"
    ELSE "none"

\* lines 87-90: the asserts, in order; the first one that fails, or "none"
FailedAssert(type, states) ==
    IF m_cache.viewChanged THEN "view"
    ELSE IF ~(m_cachedPrimitiveType = type) THEN "type"
    ELSE IF ~(TextureId(states) = m_cache.lastTextureId) THEN "texture"
    ELSE IF ~(m_cache.lastBlendMode = states.blendMode) THEN "blend"
    ELSE "none"

\* the duplication of a strip decided by the size of the array, not by i
DuplicatesBySize(arr, originalType, i, first) ==
    IF originalType = "LinesStrip" /\ i > 0 THEN
        << arr[Len(arr)] >>
    ELSE IF originalType = "TrianglesStrip" /\ Len(arr) > 2 THEN
        << arr[(Len(arr) - 2) + 1], arr[(Len(arr) - 1) + 1] >>
    ELSE IF originalType = "TrianglesFan" /\ i > 2 THEN
        << arr[first + 1], arr[(Len(arr) - 1) + 1] >>
    ELSE << >>

\* the duplication with the fan's centre taken from the start of the array
DuplicatesFromArrayStart(arr, originalType, i, first) ==
    IF originalType = "LinesStrip" /\ i > 0 THEN
        << arr[Len(arr)] >>
    ELSE IF originalType = "TrianglesStrip" /\ i > 2 THEN
        << arr[(Len(arr) - 2) + 1], arr[(Len(arr) - 1) + 1] >>
    ELSE IF originalType = "TrianglesFan" /\ i > 2 THEN
        << arr[0 + 1], arr[(Len(arr) - 1) + 1] >>
    ELSE << >>

\* the duplication with the strip's last two vertices pushed in reverse order
DuplicatesReversed(arr, originalType, i, first) ==
    IF originalType = "LinesStrip" /\ i > 0 THEN
        << arr[Len(arr)] >>
    ELSE IF originalType = "TrianglesStrip" /\ i > 2 THEN
        << arr[(Len(arr) - 1) + 1], arr[(Len(arr) - 2) + 1] >>
    ELSE IF originalType = "TrianglesFan" /\ i > 2 THEN
        << arr[first + 1], arr[(Len(arr) - 1) + 1] >>
    ELSE << >>

\* the duplication of a line strip decided by the array being non-empty, not by i
DuplicatesAcrossCalls(arr, originalType, i, first) ==
    IF originalType = "LinesStrip" /\ Len(arr) > 0 THEN
        << arr[Len(arr)] >>
    ELSE IF originalType = "TrianglesStrip" /\ i > 2 THEN
        << arr[(Len(arr) - 2) + 1], arr[(Len(arr) - 1) + 1] >>
    ELSE IF originalType = "TrianglesFan" /\ i > 2 THEN
        << arr[first + 1], arr[(Len(arr) - 1) + 1] >>
    ELSE << >>

\* lines 121-141: the vertices pushed before input vertex i (0-based) is;
\* arr[k + 1] is m_vertexArray[k], first is firstVectorInsertedIndex.
Duplicates(arr, originalType, i, first) ==
    IF originalType = "LinesStrip" /\ i > 0 THEN
        << arr[Len(arr)] >>
    ELSE IF originalType = "TrianglesStrip" /\ i > 2 THEN
        << arr[(Len(arr) - 2) + 1], arr[(Len(arr) - 1) + 1] >>
    ELSE IF originalType = "TrianglesFan" /\ i > 2 THEN
        << arr[first + 1], arr[(Len(arr) - 1) + 1] >>
    ELSE << >>

\* the vertex pushed as it was passed, its position not transformed
UntransformedVertex(vertex, states) == vertex

\* lines 144-146: the vertex with its position transformed
TransformedVertex(vertex, states) ==
    [vertex EXCEPT !.position = TransformPoint(states.transform, vertex.position)]

\* lines 117-152: the loop, from input index i on; first = -1 is (std::size_t)-1
RECURSIVE AppendFrom(_, _, _, _, _, _)
AppendFrom(arr, vertices, originalType, states, i, first) ==
    IF i >= Len(vertices) THEN arr
    ELSE
        LET withDuplicates == arr \o Duplicates(arr, originalType, i, first)
            pushed == Append(withDuplicates, TransformedVertex(vertices[i + 1], states))
            newFirst == IF first = -1 THEN Len(pushed) - 1 ELSE first
        IN AppendFrom(pushed, vertices, originalType, states, i + 1, newFirst)

\* the loop storing the vertices of the call in place of those stored before
AppendVerticesAfresh(arr, vertices, originalType, states) ==
    AppendFrom(<< >>, vertices, originalType, states, 0, -1)

AppendVertices(arr, vertices, originalType, states) ==
    AppendFrom(arr, vertices, originalType, states, 0, -1)

\* the number of vertices a call of `count` vertices stores
StoredCount(originalType, count) ==
    Len(AppendVertices(<< >>, InputVertices(0, count), originalType,
                       [blendMode |-> BlendAlpha, transform |-> Identity,
                        texture |-> NULL, shader |-> NULL]))

NoSubmit == [type |-> "none"]

\* lines 85-95: the assert that fails when draw is called with these arguments
\* in the current state, or "none"; a first draw checks nothing
Conflict(originalType, states) ==
    IF m_hasDrawnSomething THEN FailedAssert(DecompositeType(originalType), states)
    ELSE "none"

\* lines 103-104: record if we've used a view
ViewWasUsedAfterFirstDraw ==
    IF m_cache.viewChanged THEN TRUE ELSE m_viewWasUsed

\* lines 105, 110: the cache after the first draw; lastBlendMode is not written
CacheAfterFirstDraw(states) ==
    [m_cache EXCEPT !.viewChanged = FALSE, !.lastTextureId = TextureId(states)]

\* line 109
CachedTextureAfterFirstDraw(states) == states.texture

\* line 113
CachedPrimitiveTypeAfterFirstDraw(type) == type

\* history: the cycle after an accepted draw call
CycleAfterDraw(originalType, vertexCount, states) ==
    [cycle EXCEPT
        !.submits = @ + 1,
        !.first = IF m_hasDrawnSomething THEN @
                  ELSE [type |-> DecompositeType(originalType), states |-> states],
        !.lateSetView = "none"]

\* history: the draw call made right before this one, if it was accepted
PreviousCall ==
    IF last.op = "submit" /\ last.conflict = "none"
    THEN [originalType |-> last.originalType, vertexCount |-> last.vertexCount,
          before |-> Len(last.before)]
    ELSE NoSubmit

\* draw with the asserts made after the vertices are appended
SubmitAssertsLast(vertexCount, originalType, states) ==
    LET type == DecompositeType(originalType)
        vertices == InputVertices(cycle.submits + 1, vertexCount)
        failed == Conflict(originalType, states)
    IN
    /\ ~aborted
    /\ UNCHANGED stencil
    /\ cycle.submits < MaxSubmits
    /\ Len(m_vertexArray) + StoredCount(originalType, vertexCount) <= MaxStored
    /\ IF failed # "none" THEN
            \* the vertices are in the array when the assert aborts the process
            /\ aborted' = TRUE
            /\ last' = [op |-> "submit", first |-> FALSE, conflict |-> failed]
            /\ m_vertexArray' = AppendVertices(m_vertexArray, vertices, originalType, states)
            /\ UNCHANGED << m_hasDrawnSomething, m_viewWasUsed, m_cachedTexture,
                            m_cachedPrimitiveType, m_cache, m_view,
                            targetView, cycle >>
       ELSE
            /\ IF m_hasDrawnSomething THEN
                    UNCHANGED << m_hasDrawnSomething, m_viewWasUsed, m_cachedTexture,
                                 m_cachedPrimitiveType, m_cache >>
               ELSE
                    /\ m_hasDrawnSomething' = TRUE
                    /\ m_viewWasUsed' = ViewWasUsedAfterFirstDraw
                    /\ m_cache' = CacheAfterFirstDraw(states)
                    /\ m_cachedTexture' = CachedTextureAfterFirstDraw(states)
                    /\ m_cachedPrimitiveType' = CachedPrimitiveTypeAfterFirstDraw(type)
            /\ m_vertexArray' = AppendVertices(m_vertexArray, vertices, originalType, states)
            /\ cycle' = CycleAfterDraw(originalType, vertexCount, states)
            /\ last' = [op |-> "submit", first |-> ~m_hasDrawnSomething, conflict |-> "none",
                        originalType |-> originalType, vertexCount |-> vertexCount,
                        states |-> states, before |-> m_vertexArray,
                        previous |-> PreviousCall]
            /\ UNCHANGED << m_view, targetView, aborted >>

Submit(vertexCount, originalType, states) ==
    LET type == DecompositeType(originalType)
        vertices == InputVertices(cycle.submits + 1, vertexCount)
        failed == Conflict(originalType, states)
    IN
    /\ ~aborted
    /\ UNCHANGED stencil
    /\ cycle.submits < MaxSubmits
    /\ Len(m_vertexArray) + StoredCount(originalType, vertexCount) <= MaxStored
    /\ IF failed # "none" THEN
            \* the assert aborts the process: nothing else happens
            /\ aborted' = TRUE
            /\ last' = [op |-> "submit", first |-> FALSE, conflict |-> failed]
            /\ UNCHANGED << m_hasDrawnSomething, m_viewWasUsed, m_cachedTexture,
                            m_cachedPrimitiveType, m_vertexArray, m_cache, m_view,
                            targetView, cycle >>
       ELSE
            /\ IF m_hasDrawnSomething THEN
                    UNCHANGED << m_hasDrawnSomething, m_viewWasUsed, m_cachedTexture,
                                 m_cachedPrimitiveType, m_cache >>
               ELSE
                    /\ m_hasDrawnSomething' = TRUE
                    /\ m_viewWasUsed' = ViewWasUsedAfterFirstDraw
                    /\ m_cache' = CacheAfterFirstDraw(states)
                    /\ m_cachedTexture' = CachedTextureAfterFirstDraw(states)
                    /\ m_cachedPrimitiveType' = CachedPrimitiveTypeAfterFirstDraw(type)
            /\ m_vertexArray' = AppendVertices(m_vertexArray, vertices, originalType, states)
            /\ cycle' = CycleAfterDraw(originalType, vertexCount, states)
            /\ last' = [op |-> "submit", first |-> ~m_hasDrawnSomething, conflict |-> "none",
                        originalType |-> originalType, vertexCount |-> vertexCount,
                        states |-> states, before |-> m_vertexArray,
                        previous |-> PreviousCall]
            /\ UNCHANGED << m_view, targetView, aborted >>

----------------------------------------------------------------------------
(* RenderTarget::setView on the batch target: m_view = view;               *)
(* m_cache.viewChanged = true (RenderTarget.cpp)                           *)

ViewAfterSetView(view) == view

CacheAfterSetView == [m_cache EXCEPT !.viewChanged = TRUE]

SetView(view) ==
    /\ ~aborted
    /\ UNCHANGED stencil
    /\ m_view' = ViewAfterSetView(view)
    /\ m_cache' = CacheAfterSetView
    /\ cycle' = IF cycle.first = NoSubmit
                THEN [cycle EXCEPT !.declared = TRUE, !.declaredView = view]
                ELSE [cycle EXCEPT !.setViewAfterSubmit = TRUE, !.lateSetView = "set"]
    /\ last' = [op |-> "other"]
    /\ UNCHANGED << m_hasDrawnSomething, m_viewWasUsed, m_cachedTexture,
                    m_cachedPrimitiveType, m_vertexArray, targetView, aborted >>

(* BatchTarget::clearView *)

\* line 34
ViewWasUsedAfterClearView == FALSE

\* clearView leaving m_cache.viewChanged as it is
CacheAfterClearViewKeepsChanged == m_cache

\* line 35
CacheAfterClearView == [m_cache EXCEPT !.viewChanged = FALSE]

ClearView ==
    /\ ~aborted
    /\ UNCHANGED stencil
    /\ m_viewWasUsed' = ViewWasUsedAfterClearView
    /\ m_cache' = CacheAfterClearView
    /\ cycle' = IF cycle.first = NoSubmit
                THEN [cycle EXCEPT !.declared = FALSE,
                                   !.declaredView = IF cycle.declared THEN "discarded" ELSE @]
                ELSE [cycle EXCEPT !.clearViewAfterSubmit = TRUE,
                                   !.lateSetView = IF @ = "set" THEN "cleared" ELSE @]
    /\ last' = [op |-> "other"]
    /\ UNCHANGED << m_hasDrawnSomething, m_cachedTexture, m_cachedPrimitiveType,
                    m_vertexArray, m_view, targetView, aborted >>

(* BatchTarget::clear *)

\* history: a cycle in which nothing has happened yet
NewCycle ==
    [submits |-> 0, first |-> NoSubmit,
     declared |-> FALSE, declaredView |-> NULL,
     setViewAfterSubmit |-> FALSE, clearViewAfterSubmit |-> FALSE, lateSetView |-> "none"]

Clear ==
    /\ ~aborted
    /\ UNCHANGED stencil
    /\ m_hasDrawnSomething' = FALSE
    /\ m_cachedTexture' = NULL
    /\ m_vertexArray' = << >>
    /\ cycle' = NewCycle
    /\ last' = [op |-> "clear"]
    /\ UNCHANGED << m_viewWasUsed, m_cachedPrimitiveType, m_cache, m_view,
                    targetView, aborted >>

\* reserve forgetting that a view is in use
ReserveForgetsView ==
    /\ ~aborted
    /\ UNCHANGED stencil
    /\ last' = [op |-> "other"]
    /\ m_viewWasUsed' = FALSE
    /\ UNCHANGED << m_hasDrawnSomething, m_cachedTexture,
                    m_cachedPrimitiveType, m_vertexArray, m_cache, m_view,
                    targetView, aborted, cycle >>

(* BatchTarget::reserve: the capacity of the vector is read by no operation *)
Reserve ==
    /\ ~aborted
    /\ UNCHANGED stencil
    /\ last' = [op |-> "other"]
    /\ UNCHANGED << m_hasDrawnSomething, m_viewWasUsed, m_cachedTexture,
                    m_cachedPrimitiveType, m_vertexArray, m_cache, m_view,
                    targetView, aborted, cycle >>

----------------------------------------------------------------------------
(* BatchTarget::draw(RenderTarget&, RenderStates) const *)

\* lines 222-225: the view set on the target for the draw
ReplayView == IF m_viewWasUsed THEN m_view ELSE TargetDefaultView

\* lines 227-228: the states with the cached texture and blend mode
ReplayStates(states) ==
    [states EXCEPT !.texture = m_cachedTexture, !.blendMode = m_cache.lastBlendMode]

\* lines 232-233: the view of the target when draw returns; the backup is
\* set again only if a view was used, else the view of line 225 stays
RestoredView(backupView) == IF m_viewWasUsed THEN backupView ELSE TargetDefaultView

\* the call of line 230 with a count of primitives in place of the count of vertices
TargetDrawPrimitiveCount(states) ==
    [vertices |-> m_vertexArray, vertexCount |-> Len(m_vertexArray) \div 3,
     type |-> m_cachedPrimitiveType, states |-> ReplayStates(states), view |-> ReplayView]

\* line 230: the call target.draw(data, size, type, states), with the view in force
TargetDraw(states) ==
    [vertices |-> m_vertexArray, vertexCount |-> Len(m_vertexArray),
     type |-> m_cachedPrimitiveType, states |-> ReplayStates(states), view |-> ReplayView]

\* history: the call before this one was a replay with the same states
ReplayRepeated(states) == last.op = "replay" /\ last.states = states

\* replay emptying the array once it is drawn
ReplayConsumes(states) ==
    /\ ~aborted
    /\ UNCHANGED stencil
    /\ targetView' = RestoredView(targetView)
    /\ last' = [op |-> "replay", states |-> states, backupView |-> targetView,
                draws |-> << TargetDraw(states) >>, repeated |-> ReplayRepeated(states)]
    /\ m_vertexArray' = << >>
    /\ UNCHANGED << m_hasDrawnSomething, m_viewWasUsed, m_cachedTexture,
                    m_cachedPrimitiveType, m_cache, m_view, aborted, cycle >>

Replay(states) ==
    /\ ~aborted
    /\ UNCHANGED stencil
    /\ targetView' = RestoredView(targetView)
    /\ last' = [op |-> "replay", states |-> states, backupView |-> targetView,
                draws |-> << TargetDraw(states) >>, repeated |-> ReplayRepeated(states)]
    /\ UNCHANGED << m_hasDrawnSomething, m_viewWasUsed, m_cachedTexture,
                    m_cachedPrimitiveType, m_vertexArray, m_cache, m_view, aborted, cycle >>

----------------------------------------------------------------------------
(* sf::StencilSettings *)

\* StencilSettings.hpp lines 49-57 and 65-75: the enumerations
Operations == {"Keep", "Zero", "Replace", "IncrementClamp", "DecrementClamp", "Invert"}
Functions ==
    {"Never", "Less", "LessEqual", "Greater", "GreaterEqual", "Equal", "NotEqual", "Always"}

\* StencilSettings.cpp lines 60-70: the constructor, with its parameters in
\* their order (function first); the members are those of lines 111-116
StencilSettings(stencilFunctionP, stencilOperationP, stencilReferenceP, alphaFunctionP, alphaReferenceP, drawSelfP) ==
    [stencilOperation |-> stencilOperationP,
     stencilFunction  |-> stencilFunctionP,
     stencilReference |-> stencilReferenceP,
     alphaFunction    |-> alphaFunctionP,
     alphaReference   |-> alphaReferenceP,
     drawSelf         |-> drawSelfP]

\* StencilSettings.cpp lines 43, 47-56: the default constructor
StencilDisable == StencilSettings("Always", "Keep", 0, "GreaterEqual", 0, TRUE)

\* The settings the callers build: two values of every parameter, the ones of
\* StencilCreate and StencilTrace (lines 41-42) among them
StencilSettingsSet ==
    { StencilSettings(f, o, r, af, ar, d) :
        f \in {"Always", "Equal"}, o \in {"Keep", "Replace"}, r \in {0, 1},
        af \in {"GreaterEqual", "Always"}, ar \in {0, 255}, d \in BOOLEAN }

\* StencilSettings.cpp lines 122-129: operator ==
OperatorEqual(left, right) ==
    /\ left.stencilOperation = right.stencilOperation
    /\ left.stencilFunction = right.stencilFunction
    /\ left.stencilReference = right.stencilReference
    /\ left.alphaFunction = right.alphaFunction
    /\ left.alphaReference = right.alphaReference

\* StencilSettings.cpp lines 133-136: operator !=
OperatorNotEqual(left, right) == ~OperatorEqual(left, right)

\* one of the two settings is built anew
ConstructLeft(settings) ==
    /\ stencil' = [left |-> settings, right |-> stencil.right, call |-> "none"]
    /\ UNCHANGED << m_hasDrawnSomething, m_viewWasUsed, m_cachedTexture,
                    m_cachedPrimitiveType, m_vertexArray, m_cache, m_view,
                    targetView, aborted, cycle, last >>

ConstructRight(settings) ==
    /\ stencil' = [left |-> stencil.left, right |-> settings, call |-> "none"]
    /\ UNCHANGED << m_hasDrawnSomething, m_viewWasUsed, m_cachedTexture,
                    m_cachedPrimitiveType, m_vertexArray, m_cache, m_view,
                    targetView, aborted, cycle, last >>

\* left == right is evaluated
CallOperatorEqual ==
    /\ stencil' = [left |-> stencil.left, right |-> stencil.right, call |-> "==",
                   result |-> OperatorEqual(stencil.left, stencil.right)]
    /\ UNCHANGED << m_hasDrawnSomething, m_viewWasUsed, m_cachedTexture,
                    m_cachedPrimitiveType, m_vertexArray, m_cache, m_view,
                    targetView, aborted, cycle, last >>

\* left != right is evaluated
CallOperatorNotEqual ==
    /\ stencil' = [left |-> stencil.left, right |-> stencil.right, call |-> "!=",
                   result |-> OperatorNotEqual(stencil.left, stencil.right)]
    /\ UNCHANGED << m_hasDrawnSomething, m_viewWasUsed, m_cachedTexture,
                    m_cachedPrimitiveType, m_vertexArray, m_cache, m_view,
                    targetView, aborted, cycle, last >>

\* StencilSettings.cpp lines 92-103: translateOperation, the OpenGL constants
\* by their names
translateOperation(op) ==
    CASE op = "Keep"           -> "GL_KEEP"
      [] op = "Zero"           -> "GL_ZERO"
      [] op = "Replace"        -> "GL_REPLACE"
      [] op = "IncrementClamp" -> "GL_INCR"
      [] op = "DecrementClamp" -> "GL_INCR"
      [] op = "Invert"         -> "GL_INVERT"

\* StencilSettings.cpp lines 105-118: translateFunction
translateFunction(func) ==
    CASE func = "Never"        -> "GL_NEVER"
      [] func = "Less"         -> "GL_EQUAL"
      [] func = "LessEqual"    -> "GL_LEQUAL"
      [] func = "Greater"      -> "GL_GREATER"
      [] func = "GreaterEqual" -> "GL_GEQUAL"
      [] func = "Equal"        -> "GL_EQUAL"
      [] func = "NotEqual"     -> "GL_NOTEQUAL"
      [] func = "Always"       -> "GL_ALWAYS"

\* StencilSettings.cpp lines 77-88: the OpenGL calls of apply() with their
\* arguments (the alpha reference is passed divided by 255.f; the colour mask
\* is four times the same flag)
GLCalls(settings) ==
    [glAlphaFunc   |-> << translateFunction(settings.alphaFunction), settings.alphaReference >>,
     glStencilOp   |-> << translateOperation(settings.stencilOperation),
                          translateOperation(settings.stencilOperation),
                          translateOperation(settings.stencilOperation) >>,
     glStencilFunc |-> << translateFunction(settings.stencilFunction),
                          settings.stencilReference, 255 >>,
     glColorMask   |-> settings.drawSelf]

\* The settings apply() is called on: every operation and function
AppliedSettingsSet ==
    { StencilSettings(f, o, 1, af, 255, d) :
        f \in Functions, o \in Operations, af \in Functions, d \in BOOLEAN }

\* StencilSettings.cpp lines 73-89: left.apply()
CallApply ==
    /\ stencil' = [left |-> stencil.left, right |-> stencil.right, call |-> "apply",
                   result |-> GLCalls(stencil.left)]
    /\ UNCHANGED << m_hasDrawnSomething, m_viewWasUsed, m_cachedTexture,
                    m_cachedPrimitiveType, m_vertexArray, m_cache, m_view,
                    targetView, aborted, cycle, last >>

----------------------------------------------------------------------------
(* The owner of the target sets a view on it between two replays *)
TargetSetView(view) ==
    /\ ~aborted
    /\ UNCHANGED stencil
    /\ view # targetView
    /\ targetView' = view
    /\ last' = [op |-> "other"]
    /\ UNCHANGED << m_hasDrawnSomething, m_viewWasUsed, m_cachedTexture,
                    m_cachedPrimitiveType, m_vertexArray, m_cache, m_view, aborted, cycle >>

----------------------------------------------------------------------------
(* BatchTarget::BatchTarget: clear(); initialize(); clearView();           *)
(* m_cachedPrimitiveType is not initialized: any value.  lastBlendMode is  *)
(* the default-constructed sf::BlendMode, alpha blending; lastTextureId is *)
(* written by the first draw before any read.                              *)

Init ==
    /\ m_hasDrawnSomething = FALSE
    /\ m_viewWasUsed = FALSE
    /\ m_cachedTexture = NULL
    /\ m_cachedPrimitiveType \in PrimitiveTypes
    /\ m_vertexArray = << >>
    /\ m_cache = [viewChanged |-> FALSE, lastTextureId |-> 0, lastBlendMode |-> BlendAlpha]
    /\ m_view = BatchInitialView
    /\ targetView \in TargetViews
    /\ aborted = FALSE
    /\ cycle = NewCycle
    /\ last = [op |-> "construct"]
    /\ stencil = [left |-> StencilDisable, right |-> StencilDisable, call |-> "none"]

\* The calls on the batch target and its replay target, with few vertices
Next ==
    \/ \E vertexCount \in FewVertexCounts, originalType \in PrimitiveTypes,
          states \in SettingsRenderStates : Submit(vertexCount, originalType, states)
    \/ \E view \in DeclaredViews : SetView(view)
    \/ ClearView
    \/ Clear
    \/ Reserve
    \/ \E states \in BaseRenderStates : Replay(states)
    \/ \E view \in TargetViews : TargetSetView(view)

Spec == Init /\ [][Next]_vars

\* The draw calls with every vertex count, under one texture, blend mode and view
NextGeometry ==
    \/ \E vertexCount \in 0..MaxVertexCount, originalType \in PrimitiveTypes,
          states \in PlainRenderStates : Submit(vertexCount, originalType, states)
    \/ Clear
    \/ \E states \in BaseRenderStates : Replay(states)

SpecGeometry == Init /\ [][NextGeometry]_vars

(* The calls whose render states are studied: draw calls with every render
   state, between views set and clears *)
NextRenderStates ==
    \/ \E vertexCount \in FewVertexCounts, originalType \in PrimitiveTypes,
          states \in RenderStatesSet : Submit(vertexCount, originalType, states)
    \/ \E view \in DeclaredViews : SetView(view)
    \/ Clear

SpecRenderStates == Init /\ [][NextRenderStates]_vars

(* The calls on stencil settings: two settings are built and compared *)
NextStencil ==
    \/ \E settings \in StencilSettingsSet : ConstructLeft(settings)
    \/ \E settings \in StencilSettingsSet : ConstructRight(settings)
    \/ CallOperatorEqual
    \/ CallOperatorNotEqual

SpecStencil == Init /\ [][NextStencil]_vars

(* The calls on stencil settings: settings are built and applied *)
NextApply ==
    \/ \E settings \in AppliedSettingsSet : ConstructLeft(settings)
    \/ CallApply

SpecApply == Init /\ [][NextApply]_vars

----------------------------------------------------------------------------
(* Properties *)

\* the texture handle, the blend mode and the category of the cycle's first draw
FirstTextureId == TextureId(cycle.first.states)
FirstBlendMode == cycle.first.states.blendMode
FirstCategory == cycle.first.type

\* the category the documentation gives each primitive type
Category(originalType) ==
    CASE originalType = "Points"         -> "Points"
      [] originalType = "Lines"          -> "Lines"
      [] originalType = "LinesStrip"     -> "Lines"
      [] originalType = "Triangles"      -> "Triangles"
      [] originalType = "TrianglesStrip" -> "Triangles"
      [] originalType = "TrianglesFan"   -> "Triangles"

\* the draw calls of a cycle after its first, when no view was set since that first
LaterDrawNoLateView == cycle.first # NoSubmit /\ ~cycle.setViewAfterSubmit

\* C1: in a cycle that has had its first draw, a draw whose render states carry
\* a texture handle (0 for no texture) other than that of the first draw fails
\* an assert, whatever was drawn in between; so every later draw that was
\* accepted carries the handle of the first.
C1_DifferentTextureConflicts ==
    /\ cycle.first # NoSubmit =>
            \A originalType \in PrimitiveTypes, states \in RenderStatesSet :
                TextureId(states) # FirstTextureId
                    => Conflict(originalType, states) # "none"
    /\ (last.op = "submit" /\ last.conflict = "none" /\ ~last.first)
            => TextureId(last.states) = FirstTextureId

\* C1: the third draw of a cycle has failed the assert on the texture
C1_Witness ==
    aborted /\ last.op = "submit" /\ last.conflict = "texture" /\ cycle.submits = 2

\* C2: in a cycle where no view was set after the first draw, a draw with the
\* texture handle, the blend mode and the category of the first draw fails no assert.
C2_SameSettingsNeverConflict ==
    LaterDrawNoLateView =>
        \A originalType \in PrimitiveTypes, states \in RenderStatesSet :
            ( /\ TextureId(states) = FirstTextureId
              /\ states.blendMode = FirstBlendMode
              /\ Category(originalType) = FirstCategory )
                => Conflict(originalType, states) = "none"

\* C3: the first draw of a cycle commits its blend mode, and a later draw with
\* the texture handle and category of the first (no view set since) fails an
\* assert exactly when its blend mode differs from that of the first draw.
C3_BlendModeCommitted ==
    LaterDrawNoLateView =>
        /\ m_cache.lastBlendMode = FirstBlendMode
        /\ \A originalType \in PrimitiveTypes, states \in RenderStatesSet :
            ( /\ TextureId(states) = FirstTextureId
              /\ Category(originalType) = FirstCategory )
                => ( Conflict(originalType, states) # "none"
                        <=> states.blendMode # FirstBlendMode )

\* C4: the category committed is the documented category of the first draw's
\* primitive type, and a later draw with the texture handle and blend mode of
\* the first (no view set since) fails an assert exactly when its documented
\* category differs from the committed one; so Triangles, TrianglesStrip and
\* TrianglesFan draws mix without conflict.
C4_CategoryConflictIff ==
    LaterDrawNoLateView =>
        /\ m_cachedPrimitiveType = FirstCategory
        /\ \A originalType \in PrimitiveTypes, states \in RenderStatesSet :
            ( /\ TextureId(states) = FirstTextureId
              /\ states.blendMode = FirstBlendMode )
                => ( Conflict(originalType, states) # "none"
                        <=> Category(originalType) # FirstCategory )

\* C5 as stated: once setView was called after the first draw of a cycle, the
\* next draw of the cycle fails an assert; and when no setView was called after
\* the first draw, no draw fails the assert on the view.
C5_LateSetViewConflicts ==
    /\ cycle.lateSetView # "none" =>
            \A originalType \in PrimitiveTypes, states \in RenderStatesSet :
                Conflict(originalType, states) # "none"
    /\ ~cycle.setViewAfterSubmit =>
            \A originalType \in PrimitiveTypes, states \in RenderStatesSet :
                Conflict(originalType, states) # "view"

\* C5 amended: once setView was called after the first draw of a cycle, and
\* clearView was not called since, the next draw of the cycle fails the assert
\* on the view; and when no setView was called after the first draw, no draw
\* fails the assert on the view.
C5_LateSetViewConflictsUnlessCleared ==
    /\ cycle.lateSetView = "set" =>
            \A originalType \in PrimitiveTypes, states \in RenderStatesSet :
                Conflict(originalType, states) = "view"
    /\ ~cycle.setViewAfterSubmit =>
            \A originalType \in PrimitiveTypes, states \in RenderStatesSet :
                Conflict(originalType, states) # "view"
    /\ (last.op = "submit" /\ last.conflict = "view") => cycle.lateSetView = "set"

\* C5: a draw has failed the assert on the view, in a cycle that declared a
\* view before its first draw and set another after it
C5_Witness ==
    /\ aborted /\ last.op = "submit" /\ last.conflict = "view"
    /\ cycle.declared /\ cycle.lateSetView = "set"

\* the calls whose vertices are found in the k-th triangle of the array
\* (vertices 3k, 3k+1, 3k+2, counted from 0)
TriangleCalls(k) ==
    { m_vertexArray[3 * k + j].src[1] : j \in 1..3 }

\* some whole triangle of the array has vertices of both of the last two draw calls
GluedTriangle ==
    \E k \in 0..((Len(m_vertexArray) \div 3) - 1) :
        {cycle.submits - 1, cycle.submits} \subseteq TriangleCalls(k)

\* two TrianglesStrip draw calls were accepted one right after the other
TwoStrips ==
    /\ last.op = "submit" /\ last.conflict = "none"
    /\ last.originalType = "TrianglesStrip"
    /\ last.previous # NoSubmit
    /\ last.previous.originalType = "TrianglesStrip"

\* C6 as stated: after two consecutive TrianglesStrip draws of any vertex
\* counts, no triangle of the array has vertices of both draws.
C6_StripsNeverGlued ==
    TwoStrips => ~GluedTriangle

\* C6 amended: after two consecutive TrianglesStrip draws, the second of which
\* started with a multiple of three vertices in the array, no triangle of the
\* array has vertices of both draws.
C6_AlignedStripsNeverGlued ==
    (TwoStrips /\ Len(last.before) % 3 = 0) => ~GluedTriangle

\* C6: two strips of at least three vertices each, one right after the other
C6_Witness ==
    /\ TwoStrips /\ Len(last.before) % 3 = 0
    /\ last.previous.vertexCount >= 3 /\ last.vertexCount >= 3

\* C7: when replay returns, the view of the target is the one it had before the call.
C7_ReplayRestoresView ==
    last.op = "replay" => targetView = last.backupView

\* C8: replay of a cycle with no draw yet makes no draw call on the target and
\* leaves the view of the target as it was.
C8_EmptyReplayIsNoOp ==
    (last.op = "replay" /\ cycle.first = NoSubmit)
        => (last.draws = << >> /\ targetView = last.backupView)

\* C9: the view in force during the draw call of a replay of a cycle that has
\* had a draw is the view declared since the last clear and before the cycle's
\* first draw, if there is one, and the default view of the target otherwise
\* (stated for the cycles in which setView and clearView were called before the
\* first draw only, as their documentation asks).
C9_ReplayViewIsDeclaredView ==
    ( /\ last.op = "replay" /\ cycle.first # NoSubmit
      /\ ~cycle.setViewAfterSubmit /\ ~cycle.clearViewAfterSubmit ) =>
        \A i \in DOMAIN last.draws :
            last.draws[i].view =
                IF cycle.declared THEN cycle.declaredView ELSE TargetDefaultView

\* C10: the render states replay passes to the target's draw carry the texture
\* and the blend mode of the cycle's first draw, and the transform and the
\* shader of the states replay was given.
C10_ReplayStatesOverlay ==
    (last.op = "replay" /\ cycle.first # NoSubmit) =>
        \A i \in DOMAIN last.draws :
            /\ last.draws[i].states.texture = cycle.first.states.texture
            /\ last.draws[i].states.blendMode = FirstBlendMode
            /\ last.draws[i].states.transform = last.states.transform
            /\ last.draws[i].states.shader = last.states.shader

\* the (call, input index) tags of a sequence of stored vertices
Sources(arr) == [k \in DOMAIN arr |-> arr[k].src]

\* C11: replay of a cycle that has had a draw makes exactly one draw call on the
\* target, with the whole vertex array in its stored order, the number of
\* stored vertices as count and the category of the cycle's first draw as
\* type; the view replay sets is the one in force at that call.
C11_ReplayIsOneDraw ==
    (last.op = "replay" /\ cycle.first # NoSubmit) =>
        /\ Len(last.draws) = 1
        /\ last.draws[1].vertices = m_vertexArray
        /\ last.draws[1].vertexCount = Len(m_vertexArray)
        /\ last.draws[1].type = FirstCategory
        /\ last.draws[1].view = ReplayView

\* C11: replay after one TrianglesFan draw of 4 vertices, on a target whose view
\* was not the one replay sets
C11_Witness ==
    /\ last.op = "replay" /\ cycle.submits = 1
    /\ Sources(m_vertexArray) =
            << <<1, 0>>, <<1, 1>>, <<1, 2>>, <<1, 0>>, <<1, 2>>, <<1, 3>> >>
    /\ Len(last.draws) = 1
    /\ last.draws[1].type = "Triangles" /\ last.draws[1].vertexCount = 6
    /\ last.backupView # last.draws[1].view

\* the last call was an accepted draw of this primitive type
AcceptedDraw(originalType) ==
    last.op = "submit" /\ last.conflict = "none" /\ last.originalType = originalType

\* the part of the array the last draw call appended, when it kept what was there
Appended == SubSeq(m_vertexArray, Len(last.before) + 1, Len(m_vertexArray))
KeptBefore ==
    /\ Len(m_vertexArray) >= Len(last.before)
    /\ SubSeq(m_vertexArray, 1, Len(last.before)) = last.before

\* input vertex i (0-based) of the last draw call, as the documentation wants
\* it stored: position transformed by the call's transform, the rest as it is
Stored(i) ==
    [position  |-> TransformPoint(last.states.transform, << i, cycle.submits >>),
     color     |-> i,
     texCoords |-> << i, i >>,
     src       |-> << cycle.submits, i >>]

\* the stored vertices of the input indices listed in seq
StoredSeq(seq) == [k \in DOMAIN seq |-> Stored(seq[k])]

\* the input indices of the lines of a strip of n vertices: 0,1, 1,2, ...
LinePairs(n) == [k \in 1..(2 * (n - 1)) |-> ((k - 1) \div 2) + ((k - 1) % 2)]

\* C12: an accepted LinesStrip draw of N >= 2 vertices keeps what the array
\* held and appends exactly 2(N-1) vertices: the transformed pairs (v0,v1),
\* (v1,v2), ..., (v_{N-2},v_{N-1}) in that order.
C12_LineStripPairs ==
    (AcceptedDraw("LinesStrip") /\ last.vertexCount >= 2) =>
        /\ KeptBefore
        /\ Appended = StoredSeq(LinePairs(last.vertexCount))

\* the input indices of the triangles of a fan of n vertices: 0,1,2, 0,2,3, ...
FanTriangles(n) ==
    [k \in 1..(3 * (n - 2)) |->
        IF (k - 1) % 3 = 0 THEN 0 ELSE ((k - 1) \div 3) + ((k - 1) % 3)]

\* C13: an accepted TrianglesFan draw of N >= 3 vertices keeps what the array
\* held and appends exactly 3(N-2) vertices: the transformed triangles
\* (v0, v_{i-1}, v_i) for i = 2..N-1, v0 being the first input vertex of this
\* call, whatever the array held before.
C13_FanTriangles ==
    (AcceptedDraw("TrianglesFan") /\ last.vertexCount >= 3) =>
        /\ KeptBefore
        /\ Appended = StoredSeq(FanTriangles(last.vertexCount))

\* C13: a fan of 4 vertices drawn into an array that held vertices already,
\* stored as (c0,c1,c2),(c0,c2,c3)
C13_Witness ==
    /\ AcceptedDraw("TrianglesFan") /\ last.vertexCount = 4
    /\ Len(last.before) > 0
    /\ Appended = StoredSeq(<< 0, 1, 2, 0, 2, 3 >>)

\* the input indices of the triangles of a strip of n vertices: 0,1,2, 1,2,3, ...
StripTriangles(n) ==
    [k \in 1..(3 * (n - 2)) |-> ((k - 1) \div 3) + ((k - 1) % 3)]

\* C14: an accepted TrianglesStrip draw of N >= 3 vertices keeps what the
\* array held and appends exactly 3(N-2) vertices: the transformed triangles
\* (v_{i-2}, v_{i-1}, v_i) for i = 2..N-1 in order, all of them vertices of
\* this call (the two vertices pushed again before each input vertex i > 2
\* are the last two stored, in their stored order).
C14_StripTriangles ==
    (AcceptedDraw("TrianglesStrip") /\ last.vertexCount >= 3) =>
        /\ KeptBefore
        /\ Appended = StoredSeq(StripTriangles(last.vertexCount))
        /\ \A k \in DOMAIN Appended : Appended[k].src[1] = cycle.submits

\* C14: a strip of 4 vertices drawn into an array that held vertices already,
\* stored as (v0,v1,v2),(v1,v2,v3)
C14_Witness ==
    /\ AcceptedDraw("TrianglesStrip") /\ last.vertexCount = 4
    /\ Len(last.before) > 0
    /\ Appended = StoredSeq(<< 0, 1, 2, 1, 2, 3 >>)

\* C15: after an accepted draw, every vertex it appended, the duplicated ones
\* too, is an input vertex of this call with its position transformed once by
\* the transform of the call's render states and its colour and texture
\* coordinates as passed; the vertices stored before are as they were.
C15_StoredTransformedOnce ==
    (last.op = "submit" /\ last.conflict = "none") =>
        /\ KeptBefore
        /\ \A k \in DOMAIN Appended :
                /\ Appended[k].src[1] = cycle.submits
                /\ Appended[k].src[2] \in 0..(last.vertexCount - 1)
                /\ Appended[k] = Stored(Appended[k].src[2])

\* C15: a strip drawn with a transform that moves points, into an array that
\* held vertices already, with vertices stored twice
C15_Witness ==
    /\ AcceptedDraw("TrianglesStrip") /\ last.vertexCount = 4
    /\ last.states.transform = Translate
    /\ Len(last.before) > 0
    /\ Appended[4] = Appended[2]
    /\ Appended[4].position # << 1, cycle.submits >>

\* C16: clear leaves the array empty and m_hasDrawnSomething false, and the
\* draw call made next after a clear is accepted, whatever its primitive type
\* and render states, and fixes the settings of the new cycle: its category,
\* its texture handle and its blend mode are the cached ones after it.
C16_ClearStartsNewCycle ==
    [][ /\ (last'.op = "clear") => (m_vertexArray' = << >> /\ ~m_hasDrawnSomething')
        /\ (last.op = "clear" /\ last'.op = "submit") =>
                /\ last'.conflict = "none"
                /\ m_cachedPrimitiveType' = Category(last'.originalType)
                /\ m_cache'.lastTextureId = TextureId(last'.states)
                /\ m_cache'.lastBlendMode = last'.states.blendMode ]_vars

DeclarationDiscarded ==
    /\ ~cycle.declared /\ cycle.declaredView = "discarded"
    /\ ~cycle.setViewAfterSubmit

\* C18: when clearView was called after a setView and before the first draw of
\* the cycle, no view is marked as used, before and after the first draw, no
\* draw call of the cycle fails the assert on the view, and the view in force
\* at a replay's draw is the default view of the target.
C18_ClearViewDiscardsDeclaration ==
    DeclarationDiscarded =>
        /\ ~m_viewWasUsed
        /\ \A originalType \in PrimitiveTypes, states \in RenderStatesSet :
                Conflict(originalType, states) # "view"
        /\ last.op = "replay" =>
                \A i \in DOMAIN last.draws : last.draws[i].view = TargetDefaultView

\* C18: replay after setView, clearView and two accepted draws, on a target
\* that had another view
C18_Witness ==
    /\ DeclarationDiscarded
    /\ last.op = "replay" /\ cycle.submits >= 2
    /\ m_view \in DeclaredViews
    /\ last.backupView # TargetDefaultView
    /\ last.draws[1].view = TargetDefaultView

\* the transforms and the shaders of the render states
Transforms == { s.transform : s \in RenderStatesSet }
Shaders == { s.shader : s \in RenderStatesSet }

\* the render states that differ from these in transform or shader only
\* (every render state is one of SettingsRenderStates or differs so from one)
SameButTransformAndShader(states) ==
    { [states EXCEPT !.transform = transform, !.shader = shader] :
        transform \in Transforms, shader \in Shaders }

\* C19: in every state, whether a draw call fails an assert, and which, does
\* not depend on the shader and the transform of its render states, and
\* neither does what a first draw records in the cache for the checks of the
\* later ones: draw sequences that differ in shaders and transforms only fail
\* at the same calls.
C19_ShaderAndTransformNotChecked ==
    \A states \in SettingsRenderStates : \A other \in SameButTransformAndShader(states) :
        /\ CacheAfterFirstDraw(other) = CacheAfterFirstDraw(states)
        /\ \A originalType \in PrimitiveTypes :
                Conflict(originalType, other) = Conflict(originalType, states)

\* C19: a draw call accepted after the cycle's first, with another shader and
\* another transform than the first had
C19_Witness ==
    /\ last.op = "submit" /\ last.conflict = "none" /\ ~last.first
    /\ last.states.shader # cycle.first.states.shader
    /\ last.states.transform # cycle.first.states.transform

\* the six members of two stencil settings are pairwise equal
AllMembersEqual(left, right) ==
    /\ left.stencilOperation = right.stencilOperation
    /\ left.stencilFunction = right.stencilFunction
    /\ left.stencilReference = right.stencilReference
    /\ left.alphaFunction = right.alphaFunction
    /\ left.alphaReference = right.alphaReference
    /\ left.drawSelf = right.drawSelf

\* C20: operator == on two stencil settings returns true exactly when their six
\* members are pairwise equal, and operator != returns true exactly when they
\* are not.
C20_EqualIffAllMembersEqual ==
    /\ stencil.call = "==" => (stencil.result <=> AllMembersEqual(stencil.left, stencil.right))
    /\ stencil.call = "!=" => (stencil.result <=> ~AllMembersEqual(stencil.left, stencil.right))

\* the OpenGL equivalents the documentation gives the operations and functions
GLOperation(op) ==
    CASE op = "Keep"           -> "GL_KEEP"
      [] op = "Zero"           -> "GL_ZERO"
      [] op = "Replace"        -> "GL_REPLACE"
      [] op = "IncrementClamp" -> "GL_INCR"
      [] op = "DecrementClamp" -> "GL_DECR"
      [] op = "Invert"         -> "GL_INVERT"
GLFunction(func) ==
    CASE func = "Never"        -> "GL_NEVER"
      [] func = "Less"         -> "GL_LESS"
      [] func = "LessEqual"    -> "GL_LEQUAL"
      [] func = "Greater"      -> "GL_GREATER"
      [] func = "GreaterEqual" -> "GL_GEQUAL"
      [] func = "Equal"        -> "GL_EQUAL"
      [] func = "NotEqual"     -> "GL_NOTEQUAL"
      [] func = "Always"       -> "GL_ALWAYS"

\* C21: the operation and the functions apply() passes to OpenGL are the
\* OpenGL equivalents of the operation and the functions of the settings, and
\* no two operations and no two functions are translated to the same constant.
C21_TranslationsDirect ==
    stencil.call = "apply" =>
        /\ stencil.result.glStencilOp[1] = GLOperation(stencil.left.stencilOperation)
        /\ stencil.result.glStencilFunc[1] = GLFunction(stencil.left.stencilFunction)
        /\ stencil.result.glAlphaFunc[1] = GLFunction(stencil.left.alphaFunction)
        /\ \A a \in Operations, b \in Operations :
                translateOperation(a) = translateOperation(b) => a = b
        /\ \A a \in Functions, b \in Functions :
                translateFunction(a) = translateFunction(b) => a = b

C23_ConflictChangesNothing ==
    [][ (~aborted /\ aborted') =>
            /\ last'.op = "submit" /\ last'.conflict # "none"
            /\ m_vertexArray' = m_vertexArray
            /\ m_cachedPrimitiveType' = m_cachedPrimitiveType
            /\ m_cachedTexture' = m_cachedTexture
            /\ m_cache' = m_cache
            /\ m_hasDrawnSomething' = m_hasDrawnSomething ]_vars

\* C23: a draw call has failed the assert on the type after two accepted draw
\* calls, whose vertices the array holds
C23_Witness ==
    /\ aborted /\ last.op = "submit" /\ last.conflict = "type"
    /\ cycle.submits = 2 /\ Len(m_vertexArray) = 2
    /\ m_cachedPrimitiveType = FirstCategory

\* the primitive types draw decomposes
CompositeTypes == {"LinesStrip", "TrianglesStrip", "TrianglesFan"}

\* C24: after every accepted draw call the array holds what it held before the
\* call, unchanged, followed by the vertices of the call, which are as many as
\* the call passed if its type is not decomposed and at least as many if it is.
C24_AppendOnly ==
    (last.op = "submit" /\ last.conflict = "none") =>
        /\ KeptBefore
        /\ IF last.originalType \in CompositeTypes
           THEN Len(Appended) >= last.vertexCount
           ELSE Len(Appended) = last.vertexCount

\* C24: a strip of 3 vertices drawn into an array that held vertices already
\* and storing more vertices than it was passed
C24_Witness ==
    /\ AcceptedDraw("LinesStrip") /\ last.vertexCount = 3
    /\ Len(last.before) > 0 /\ KeptBefore
    /\ Len(Appended) > 3

\* the fewest vertices that make a primitive of a composite type
MinVertices(originalType) == IF originalType = "LinesStrip" THEN 2 ELSE 3

\* C25: an accepted draw call of a composite type with fewer vertices than
\* make one primitive keeps what the array held and appends exactly its
\* vertices, transformed, in their order: no vertex twice and none of an
\* earlier call.
C25_ShortCompositeNotDuplicated ==
    ( /\ last.op = "submit" /\ last.conflict = "none"
      /\ last.originalType \in CompositeTypes
      /\ last.vertexCount < MinVertices(last.originalType) ) =>
        /\ KeptBefore
        /\ Appended = StoredSeq([k \in 1..last.vertexCount |-> k - 1])

\* C25: a fan of 2 vertices and a triangle strip of 2 vertices drawn one after
\* the other into an array that held vertices already
C25_Witness ==
    /\ AcceptedDraw("TrianglesStrip") /\ last.vertexCount = 2
    /\ last.previous # NoSubmit
    /\ last.previous.originalType = "TrianglesFan" /\ last.previous.vertexCount = 2
    /\ last.previous.before > 0
    /\ Len(Appended) = 2

\* C26: replay changes none of the vertex array, m_hasDrawnSomething, the
\* cached category, texture and blend mode, the view of the batch target and
\* its view flags, so the draw calls that follow in the cycle are checked and
\* stored as if no replay had been made; and a replay made right after a
\* replay with the same render states makes the same draw calls.
C26_ReplayOnlyReads ==
    [][ (last'.op = "replay") =>
            /\ m_vertexArray' = m_vertexArray
            /\ m_hasDrawnSomething' = m_hasDrawnSomething
            /\ m_cachedPrimitiveType' = m_cachedPrimitiveType
            /\ m_cachedTexture' = m_cachedTexture
            /\ m_cache' = m_cache
            /\ m_viewWasUsed' = m_viewWasUsed
            /\ m_view' = m_view
            /\ (last.op = "replay" /\ last.states = last'.states)
                    => last'.draws = last.draws ]_vars

\* C26: a replay of a cycle with an accepted draw, under a declared view,
\* made right after a replay with the same render states
C26_Witness ==
    /\ last.op = "replay" /\ last.repeated
    /\ m_hasDrawnSomething /\ Len(m_vertexArray) > 0
    /\ m_viewWasUsed /\ m_cachedTexture # NULL

=============================================================================
